---- MODULE Spec2Model ----
(***************************************************************************)
(* A model of ServiceLocator.hpp (stevef51/CPPServiceLocator).             *)
(*                                                                         *)
(* The locator is single threaded and re-entrant: a resolve runs the       *)
(* binding's construction function, which may resolve further interfaces   *)
(* through the context it was given.  The model keeps the C++ call stack   *)
(* explicitly: a top-level call pushes a frame, and while the stack is not *)
(* empty the only enabled actions are the steps of its top frame.  An      *)
(* exception is never caught by ServiceLocator.hpp, so a throw unwinds the *)
(* whole stack.                                                            *)
(***************************************************************************)
EXTENDS Integers, Sequences, FiniteSets, TLC

\* ------------------------------------------------------------------ bounds

\* Instances that top-level calls may construct before the model stops
\* issuing calls.
MaxInst == 3

\* Bindings a client of nested locators registers.
MaxBind == 2

\* Frames on the call stack beyond which a deferred callback makes no
\* further call.
MaxDepth == 6

\* Object identities: each frame constructs at most one object on top of
\* those the earlier top-level calls constructed.
MaxId == MaxInst + MaxDepth + 1

\* ---------------------------------------------------------------- universe

\* The locators the client may create: create() gives the first, enter()
\* the others.
LocPool == <<"sl", "child1", "child2">>

NoLoc == "none"

\* Interface types (std::type_index of IFace) and binding names.
Caps == {"ITest", "TestC"}

Names == {"", "X"}

\* The (interface, name) pairs the client binds and asks for.
Slots == {<<"ITest", "">>, <<"ITest", "X">>, <<"TestC", "">>}

\* typeid(void): the interface of a placeholder root context.
Void == "void"

NoType == "unset"

\* The empty sptr.
Null == [id |-> 0, impl |-> "null", deps |-> <<>>]

\* An instance made by the client and handed to toInstance.
sa == [id |-> -1, impl |-> "TestNoSL", deps |-> <<>>]

\* The concrete classes and factory functions a client binds.
Impls == {"TestA", "TestC", "NeedsX", "NeedsC", "Wrapper", "NullT"}

\* The interface each concrete class is bound to.
IFaceOf(impl) ==
    IF impl = "TestC" THEN "TestC" ELSE "ITest"

Req(op, cap, name) == [op |-> op, cap |-> cap, name |-> name]

\* What the constructor (or factory function) of a concrete class asks of
\* the context it is given, in order.  A constructor may read its context:
\* Wrapper wraps the binding named "X" when slc->getName() is "", and is a
\* leaf under any other name.  ViaProvider obtains slc->provider<ITest>() and
\* calls it with "" in its constructor.
Ctor(impl, name) ==
    CASE impl = "TestC" -> << Req("tryResolve", "ITest", "") >>
      [] impl = "NeedsX" -> << Req("resolve", "ITest", "X") >>
      [] impl = "NeedsC" -> << Req("resolve", "TestC", "") >>
      [] impl = "Wrapper" /\ name = "" -> << Req("resolve", "ITest", "X") >>
      [] impl = "Late" -> << Req("afterResolve", "wire", "") >>
      [] impl = "Chained" -> << Req("afterResolve", "chain", "") >>
      [] impl = "Again" -> << Req("afterResolve", "again", "") >>
      [] impl = "ViaProvider" -> << Req("provider", "ITest", "") >>
      [] OTHER -> << >>

\* Classes that use the deferred queue: the constructor of Late registers
\* the callback wire, which resolves TestC and stores it in the Late that
\* registered it; the constructor of Chained registers the callback chain,
\* which in its turn registers wire on the context it is given; the
\* constructor of Again registers the callback again, which resolves TestC
\* on the context sl->getContext() of the locator, not on the context it is
\* given.
DeferredImpls == {"Late", "Chained", "Again"}

\* What a deferred callback asks of the context it is given, in order; what
\* it resolves it stores in the object whose constructor registered it.
Callback(cb) ==
    CASE cb = "wire" -> << Req("resolve", "TestC", "") >>
      [] cb = "chain" -> << Req("afterResolve", "wire", "") >>
      [] cb = "again" -> << Req("getContext()->resolve", "TestC", "") >>
      [] OTHER -> << >>

\* What the construction function hands back once its requests are served.
Makes(impl) ==
    IF impl = "NullT" THEN "nullptr" ELSE "object"

Keys == {<<l, c, n>> : l \in {LocPool[i] : i \in 1..Len(LocPool)}, c \in Caps, n \in Names}

NoKey == <<NoLoc, Void, "">>

\* A binding: its lifecycle, its concrete class, and its _fnGet, which
\* either returns the instance it holds (init) or constructs.
NoBinding == [kind |-> "none", impl |-> "none", inst |-> Null, init |-> FALSE]

VARIABLES
    parent,     \* locator -> its _parent: NoLoc for the root, Free while not created
    bindings,   \* <<locator, interface, name>> -> the binding registered there
    stack,      \* the frames of the calls in progress, outermost first
    nextId,     \* the identity the next constructed object gets
    trace,      \* what the last call of the client did (observation only)
    seen,       \* per singleton binding: how often its construction function
                \* returned, and the first instance its get returned (observation only)
    order,      \* <<locator, interface>> -> the names bound there, in the order
                \* of their registration (observation only: std::map keeps no such order)
    eager,      \* locator -> its _eagerBindings: the bindings flagged eagerly()
                \* that no getContext has flushed yet
    deferred,   \* locator -> the _fnAfterResolveList of its persistent _context
    held,       \* object identity -> what deferred callbacks stored in the object
    madeBy      \* object identity -> the binding that constructed the object
                \* (NoKey: not constructed yet)

vars == <<parent, bindings, stack, nextId, trace, seen, order, eager, deferred, held, madeBy>>

Free == "free"

Created == {LocPool[i] : i \in {j \in 1..Len(LocPool) : parent[LocPool[j]] # Free}}

\* ----------------------------------------------------------------- events

\* One observation: what happened (e), in which call (op, the interface and
\* name asked for, from the context of which locator, at which nesting
\* depth), about which binding (key) and with which instance (val); for an
\* exception whose message holds a resolve path, path is that path.
Ev(e, op, cap, name, from, key, val, depth) ==
    [e |-> e, op |-> op, cap |-> cap, name |-> name, from |-> from,
     key |-> key, val |-> val, depth |-> depth, path |-> <<>>]

\* ---------------------------------------------------------------- contexts

\* Context::Context(wptr<ServiceLocator> sl): the persistent root context of
\* a locator.
\* at tells where the _fnAfterResolveList of the root lives: 0 for the
\* persistent context of a locator (the variable deferred), otherwise the
\* depth of the callback frame the root context was made for.
RootContext(l) == [loc |-> l, cap |-> Void, name |-> "", ctype |-> NoType, at |-> 0]

\* Context::Context(wptr<ServiceLocator> sl, interfaceType, name): the root
\* context the function returned by provider or tryProvider makes for each
\* call; d is the depth of the frame of that call, which holds the
\* _fnAfterResolveList of the context.
ProviderContext(l, cap, name, d) ==
    [root |-> [loc |-> l, cap |-> cap, name |-> name, ctype |-> NoType, at |-> d], chain |-> <<>>]

\* Context::Context(Context* parent, interfaceType, name): a child context.
\* A context is kept as its root and the chain of contexts below the root,
\* outermost first; the last element is the context itself.
ChildContext(ctx, cap, name) ==
    [root |-> ctx.root,
     chain |-> Append(ctx.chain, [cap |-> cap, name |-> name, ctype |-> NoType])]

Self(ctx) ==
    IF ctx.chain = <<>>
    THEN [cap |-> ctx.root.cap, name |-> ctx.root.name, ctype |-> ctx.root.ctype]
    ELSE ctx.chain[Len(ctx.chain)]

\* A setConcreteType that never finds a concrete type in place, and so
\* assigns again.
ConcreteTypeSet_never(ctx) == FALSE

\* Context::setConcreteType: the test _concreteType != nullptr, on which it
\* throws BindingIssueException, and the assignment it makes otherwise.
ConcreteTypeSet(ctx) == Self(ctx).ctype # NoType

setConcreteType(ctx, t) ==
    IF ctx.chain = <<>> THEN [ctx EXCEPT !.root.ctype = t]
    ELSE [ctx EXCEPT !.chain[Len(ctx.chain)].ctype = t]

\* Context::getResolvePath: the path of the parent context, when the context
\* has a parent and that parent has one too, followed by the entry of the
\* context itself.  The string is kept as the sequence of its entries, each
\* the interface, the name and the concrete type of one context (NoType:
\* the entry has no ".to<...>" part).
RECURSIVE getResolvePath(_)
getResolvePath(ctx) ==
    IF Len(ctx.chain) >= 2
    THEN getResolvePath([ctx EXCEPT !.chain = SubSeq(@, 1, Len(@) - 1)]) \o << Self(ctx) >>
    ELSE << Self(ctx) >>

\* A checkRecursiveResolve that compares the interface types only.
checkRecursiveResolve_anyName(ctx) ==
    LET me == Self(ctx)
    IN  \/ \E i \in 1..(Len(ctx.chain) - 1) : ctx.chain[i].cap = me.cap
        \/ ctx.root.cap = me.cap

\* Context::checkRecursiveResolve(resolveCtx, compareCtx) called with
\* compareCtx = the parent of resolveCtx: TRUE when it throws.
checkRecursiveResolve(ctx) ==
    LET me == Self(ctx)
    IN  \/ \E i \in 1..(Len(ctx.chain) - 1) :
              ctx.chain[i].cap = me.cap /\ ctx.chain[i].name = me.name
        \/ (ctx.root.cap = me.cap /\ ctx.root.name = me.name)

\* ---------------------------------------------------------------- registry

\* getTypedServiceLocator<IFace>(false) # nullptr
getTypedServiceLocator(l, cap) ==
    \E n \in Names : bindings[<<l, cap, n>>].kind # "none"

\* TypedServiceLocator::canResolve
canResolve(l, cap, name) == bindings[<<l, cap, name>>].kind # "none"

\* ServiceLocator::_canResolve
RECURSIVE _canResolve(_, _, _)
_canResolve(l, cap, name) ==
    IF ~getTypedServiceLocator(l, cap)
    THEN IF parent[l] = NoLoc THEN FALSE ELSE _canResolve(parent[l], cap, name)
    ELSE canResolve(l, cap, name)

\* ------------------------------------------------------------------ frames

\* The frame of one Context::resolve / tryResolve / resolveAll call: ctx is
\* the child context the call made, loc the locator whose registry is
\* searched, key the binding whose construction function is running, ip the
\* next request of that function and deps what its earlier requests
\* returned.  For resolveAll, todo are the bindings still to visit and all
\* the instances pushed so far.  While afterResolve() runs, pos is the place
\* on the list of the callback to call next (the iterator of the loop) and
\* result what the call will return.  The frame of a deferred callback (op
\* "callback") runs the callback cb for owner on the root context ctx made
\* for it; list is the _fnAfterResolveList of the root context the frame
\* made (that of a callback, or that of a provider call).
Frame(op, ctx, l) ==
    [op |-> op, ctx |-> ctx, loc |-> l, key |-> NoKey, ip |-> 0, deps |-> <<>>,
     todo |-> <<>>, all |-> <<>>, pos |-> 0, result |-> Null,
     cb |-> "none", owner |-> 0, list |-> <<>>]

\* The part of the state a call works on.
Machine ==
    [stack |-> stack, trace |-> trace, bindings |-> bindings, nextId |-> nextId, seen |-> seen,
     eager |-> eager, deferred |-> deferred, held |-> held, madeBy |-> madeBy]

TopOf(m) == m.stack[Len(m.stack)]

WithTop(m, f) == [m EXCEPT !.stack[Len(m.stack)] = f]

Logged(m, e, val) ==
    LET f == TopOf(m)
        me == Self(f.ctx)
    IN  [m EXCEPT !.trace = Append(@, Ev(e, f.op, me.cap, me.name, f.ctx.root.loc,
                                         f.key, val, Len(m.stack)))]

\* A throw after which every singleton whose construction function was
\* running counts as initialized, with nothing in it.
Thrown_caches(m, kind) ==
    LET failed == {m.stack[i].key : i \in 1..Len(m.stack)}
    IN  [Logged(m, kind, Null) EXCEPT
            !.stack = <<>>,
            !.bindings = [k \in DOMAIN @ |->
                             IF k \in failed /\ @[k].kind = "singleton"
                             THEN [@[k] EXCEPT !.init = TRUE] ELSE @[k]]]

\* The callbacks of list that a constructor at depth d registered (all the
\* callbacks still without owner when d = 0) get the owner id, 0 for none.
RECURSIVE OwnedList(_, _, _)
OwnedList(list, d, id) ==
    IF list = <<>> THEN <<>>
    ELSE << IF Head(list).depth # 0 /\ d \in {0, Head(list).depth}
            THEN [Head(list) EXCEPT !.owner = id, !.depth = 0]
            ELSE Head(list) >> \o OwnedList(Tail(list), d, id)

RECURSIVE OwnedStack(_, _, _)
OwnedStack(st, d, id) ==
    IF st = <<>> THEN <<>>
    ELSE << [Head(st) EXCEPT !.list = OwnedList(@, d, id)] >> \o OwnedStack(Tail(st), d, id)

\* A C++ exception: nothing in ServiceLocator.hpp catches, so every frame is
\* left.  Callbacks on the list of a persistent context stay there; the
\* objects that registered them during this call were never completed.
\* The messages of RecursiveResolveException and UnableToResolveException
\* hold the getResolvePath() of the context that was being resolved.
Thrown(m, kind) ==
    [Logged(m, kind, Null) EXCEPT
        !.stack = <<>>,
        !.trace[Len(m.trace) + 1].path =
            IF kind \in {"RecursiveResolve", "UnableToResolve"}
            THEN getResolvePath(TopOf(m).ctx) ELSE <<>>,
        !.deferred = [l \in DOMAIN @ |-> OwnedList(@[l], 0, 0)]]

\* The _fnAfterResolveList of a root context.
RootList(m, root) ==
    IF root.at = 0 THEN m.deferred[root.loc] ELSE m.stack[root.at].list

WithRootList(m, root, list) ==
    IF root.at = 0 THEN [m EXCEPT !.deferred[root.loc] = list]
    ELSE [m EXCEPT !.stack[root.at].list = list]

\* Context::afterResolve(fn) on a context below root: fn is put on the list
\* of the root.  A callback registered by a constructor belongs to the object
\* under construction (owner 0 until the constructor of the frame at depth
\* completes), one registered by a callback to the owner of that callback.
\* runs counts the calls of the callback (observation only).
afterResolve_fn(m, root, cb, owner) ==
    LET logged == [m EXCEPT !.trace = Append(@, Ev("defer", TopOf(m).op, cb, "", root.loc,
                                                    TopOf(m).key, Null, Len(m.stack)))]
    IN  WithRootList(logged, root,
                     Append(RootList(m, root),
                            [cb |-> cb, owner |-> owner,
                             depth |-> IF owner = 0 THEN Len(m.stack) ELSE 0, runs |-> 0]))

\* ptr goes back to the caller, which is the client or the construction
\* function or callback that asked.
Returned(m, ptr) ==
    LET rest == SubSeq(m.stack, 1, Len(m.stack) - 1)
        logged == Logged(m, "ret", ptr)
    IN  [logged EXCEPT !.stack =
            IF rest = <<>> THEN <<>>
            ELSE [rest EXCEPT ![Len(rest)] = [@ EXCEPT !.deps = Append(@, ptr), !.ip = @ + 1]]]

\* Observation: the n-th callback on the list of root is called once more
\* (a third and later call is counted as the second).
Called(m, root, n) ==
    WithRootList(m, root, [RootList(m, root) EXCEPT ![n].runs = IF @ < 2 THEN @ + 1 ELSE @])

\* Variant of afterResolve_loop: the callback is called with the context the
\* resolve was made on instead of a new root context.
afterResolve_loop_sameContext(m) ==
    LET f == TopOf(m)
        list == RootList(m, f.ctx.root)
        d == Len(m.stack) + 1
        g == [Frame("callback", f.ctx, f.ctx.root.loc) EXCEPT
                 !.cb = list[f.pos].cb, !.owner = list[f.pos].owner, !.ip = 1]
        m0 == Called(m, f.ctx.root, f.pos)
        m1 == [WithTop(m0, [TopOf(m0) EXCEPT !.pos = @ + 1]) EXCEPT !.stack = Append(@, g)]
    IN  IF f.pos > Len(list)
        THEN Returned(WithRootList(m, f.ctx.root, <<>>), f.result)
        ELSE [m1 EXCEPT !.trace = Append(@, Ev("cb", "callback", g.cb, "", g.loc, NoKey, Null, d))]

\* The loop of Context::afterResolve(), which iterates the list in place:
\* the next callback of the list is called with a new root context of the
\* same locator; when the end of the list is reached the list is deleted
\* and the call returns.
afterResolve_loop(m) ==
    LET f == TopOf(m)
        list == RootList(m, f.ctx.root)
        d == Len(m.stack) + 1
        ctx == [root |-> [RootContext(f.ctx.root.loc) EXCEPT !.at = d], chain |-> <<>>]
        g == [Frame("callback", ctx, f.ctx.root.loc) EXCEPT
                 !.cb = list[f.pos].cb, !.owner = list[f.pos].owner, !.ip = 1]
        m0 == Called(m, f.ctx.root, f.pos)
        m1 == [WithTop(m0, [TopOf(m0) EXCEPT !.pos = @ + 1]) EXCEPT !.stack = Append(@, g)]
    IN  IF f.pos > Len(list)
        THEN Returned(WithRootList(m, f.ctx.root, <<>>), f.result)
        ELSE [m1 EXCEPT !.trace = Append(@, Ev("cb", "callback", g.cb, "", g.loc, NoKey, Null, d))]

\* Context::resolve / tryResolve / resolveAll, or the function provider or
\* tryProvider returned, once the locator gave ptr: afterResolve() on the
\* context the call was made on (the root context the provider made), which
\* does something only on a root context (this == _root) whose list exists,
\* then ptr is returned.
Return(m, ptr) ==
    LET f == TopOf(m)
    IN  IF Len(f.ctx.chain) <= 1 /\ RootList(m, f.ctx.root) # <<>>
        THEN afterResolve_loop(WithTop(m, [f EXCEPT !.pos = 1, !.result = ptr]))
        ELSE Returned(m, ptr)

RECURSIVE _resolve(_), _tryResolve(_), _resolved(_, _), _tryResolved(_, _), visit(_), flush(_)

\* ServiceLocator::_resolve after nsl->tryResolve(name, slc) gave ptr.
_resolved(m, ptr) ==
    LET f == TopOf(m)
    IN  IF ptr = Null
        THEN IF parent[f.loc] = NoLoc
             THEN Thrown(m, "UnableToResolve")
             ELSE _resolve(WithTop(m, [f EXCEPT !.loc = parent[f.loc], !.key = NoKey]))
        ELSE Return(m, ptr)

\* ServiceLocator::_tryResolve after nsl->tryResolve(name, slc) gave ptr.
_tryResolved(m, ptr) ==
    LET f == TopOf(m)
    IN  IF ptr = Null /\ parent[f.loc] # NoLoc
        THEN _tryResolve(WithTop(m, [f EXCEPT !.loc = parent[f.loc], !.key = NoKey]))
        ELSE Return(m, ptr)

\* The lambda of Context::resolveAll after binding->get(ctx) gave ptr:
\* all->push_back(ptr), and the visit goes on.
pushed(m, ptr) ==
    LET f == TopOf(m)
    IN  visit(WithTop(Logged(m, "push", ptr), [f EXCEPT !.all = Append(@, ptr)]))

\* The instance a binding's get produced reaches the _resolve, _tryResolve
\* or resolveAll that asked for it.
Got(m, ptr) ==
    CASE TopOf(m).op \in {"resolve", "provider"} -> _resolved(m, ptr)
      [] TopOf(m).op \in {"tryResolve", "tryProvider"} -> _tryResolved(m, ptr)
      [] TopOf(m).op = "getContext" -> flush(m)
      [] OTHER -> pushed(m, ptr)

\* Observation: the get of binding k returned ptr, after n returns of its
\* construction function.
Seen(m, k, n, ptr) ==
    IF m.bindings[k].kind # "singleton" THEN m
    ELSE [m EXCEPT !.seen[k] = [made |-> @.made + n,
                                first |-> IF @.gets = 0 THEN ptr ELSE @.first,
                                gets |-> 1,
                                tried |-> @.tried]]

\* Observation: the construction function of binding k is entered; a third
\* and later entry is counted as the second.
Tried(m, k) ==
    IF m.bindings[k].kind # "singleton" THEN m
    ELSE [m EXCEPT !.seen[k].tried = IF @ < 2 THEN @ + 1 ELSE @]

\* A get that is always _fnCreate, whatever instance the binding holds.
get_fnCreate(m, k) ==
    LET f == [TopOf(m) EXCEPT !.key = k]
        b == m.bindings[k]
        me == Self(f.ctx)
    IN  IF ConcreteTypeSet(f.ctx)
        THEN Thrown(WithTop(m, f), "BindingIssue")
        ELSE Logged(WithTop(m, [f EXCEPT !.ctx = setConcreteType(@, b.impl),
                                         !.ip = 1, !.deps = <<>>]),
                    "ctor", Null)

\* shared_ptr_binding::get, that is _fnGet: the lambda of toInstance or the
\* lambda asSingleton rebound _fnGet to return the instance they hold (init);
\* otherwise _fnCreate runs, which sets the concrete type of the context and
\* starts the constructor.
get(m, k) ==
    LET f == [TopOf(m) EXCEPT !.key = k]
        b == m.bindings[k]
        me == Self(f.ctx)
    IN  IF b.init
        THEN Got(Logged(Seen(WithTop(m, f), k, 0, b.inst), "get", b.inst), b.inst)
        ELSE IF ConcreteTypeSet(f.ctx)
        THEN Thrown(WithTop(m, f), "BindingIssue")
        ELSE Logged(Tried(WithTop(m, [f EXCEPT !.ctx = setConcreteType(@, b.impl),
                                               !.ip = 1, !.deps = <<>>]), k),
                    "ctor", Null)

\* TypedServiceLocator::tryResolve
tryResolve(m) ==
    LET f == TopOf(m)
        me == Self(f.ctx)
    IN  IF ~canResolve(f.loc, me.cap, me.name)
        THEN Got(m, Null)
        ELSE get(m, <<f.loc, me.cap, me.name>>)

\* ServiceLocator::_resolve
_resolve(m) ==
    LET f == TopOf(m)
        me == Self(f.ctx)
    IN  IF ~getTypedServiceLocator(f.loc, me.cap)
        THEN IF parent[f.loc] = NoLoc
             THEN Thrown(m, "UnableToResolve")
             ELSE _resolve(WithTop(m, [f EXCEPT !.loc = parent[f.loc]]))
        ELSE tryResolve(m)

\* ServiceLocator::_tryResolve
_tryResolve(m) ==
    LET f == TopOf(m)
        me == Self(f.ctx)
    IN  IF ~getTypedServiceLocator(f.loc, me.cap)
        THEN IF parent[f.loc] = NoLoc
             THEN Return(m, Null)
             ELSE _tryResolve(WithTop(m, [f EXCEPT !.loc = parent[f.loc]]))
        ELSE tryResolve(m)

\* std::map<std::string, ...> iterates its keys in ascending order.
NameOrder == <<"", "X">>

\* A _visitAll that delegates the way _resolve does: to the parent only when
\* the locator has no bindings of the interface.
RECURSIVE _visitAll_closest(_, _)
_visitAll_closest(l, cap) ==
    IF getTypedServiceLocator(l, cap)
    THEN SelectSeq([i \in 1..Len(NameOrder) |-> <<l, cap, NameOrder[i]>>],
                   LAMBDA k : canResolve(k[1], k[2], k[3]))
    ELSE IF parent[l] = NoLoc THEN <<>> ELSE _visitAll_closest(parent[l], cap)

\* ServiceLocator::_visitAll with TypedServiceLocator::visitAll: the
\* bindings of the interface in the locator, by name, then those of its
\* ancestors.
RECURSIVE _visitAll(_, _)
_visitAll(l, cap) ==
    LET own == IF getTypedServiceLocator(l, cap)
               THEN SelectSeq([i \in 1..Len(NameOrder) |-> <<l, cap, NameOrder[i]>>],
                              LAMBDA k : canResolve(k[1], k[2], k[3]))
               ELSE <<>>
    IN  IF parent[l] = NoLoc THEN own ELSE own \o _visitAll(parent[l], cap)

\* The visit of Context::resolveAll: for the next binding a child context
\* named "" is made and checked, then the binding's get is called; after the
\* last one, afterResolve() and return.
visit(m) ==
    LET f == TopOf(m)
        me == Self(f.ctx)
        ctx == ChildContext([f.ctx EXCEPT !.chain = SubSeq(@, 1, Len(@) - 1)], me.cap, "")
        next == WithTop(m, [f EXCEPT !.ctx = ctx, !.todo = Tail(@), !.key = Head(f.todo)])
    IN  IF f.todo = <<>>
        THEN Return(WithTop(m, [f EXCEPT !.key = NoKey]),
                    [id |-> -2, impl |-> "vector", deps |-> f.all])
        ELSE IF checkRecursiveResolve(ctx)
        THEN Thrown(next, "RecursiveResolve")
        ELSE get(next, Head(f.todo))

\* Context::resolveAll<IFace>(all) on the context pctx.
Context_resolveAll(m, pctx, r) ==
    LET ctx == ChildContext(pctx, r.cap, "")
        f == [Frame("resolveAll", ctx, ctx.root.loc) EXCEPT !.todo = _visitAll(ctx.root.loc, r.cap)]
    IN  visit(Logged([m EXCEPT !.stack = Append(@, f)], "call", Null))

\* The value getContext hands out: the persistent _context of the locator.
ContextOf(l) == [id |-> -3, impl |-> l, deps |-> <<>>]

\* The loop of ServiceLocator::getContext: shared_ptr_binding::eagerBind
\* makes for the next eager binding a child of _context named "" and calls
\* _fnGet on it, dropping what it returns; after the last one the list is
\* cleared and _context returned.
flush(m) ==
    LET f == TopOf(m)
        ctx == ChildContext([f.ctx EXCEPT !.chain = <<>>], Head(f.todo)[2], "")
        next == WithTop(m, [f EXCEPT !.ctx = ctx, !.todo = Tail(@), !.key = Head(f.todo)])
    IN  IF f.todo = <<>>
        THEN Returned([WithTop(m, [f EXCEPT !.key = NoKey]) EXCEPT !.eager[f.loc] = <<>>],
                      ContextOf(f.loc))
        ELSE get(Logged(next, "call", Null), Head(f.todo))

\* ServiceLocator::getContext on the locator l.
ServiceLocator_getContext(m, l) ==
    LET ctx == ChildContext([root |-> RootContext(l), chain |-> <<>>], Void, "")
        f == [Frame("getContext", ctx, l) EXCEPT !.todo = m.eager[l]]
    IN  flush(Logged([m EXCEPT !.stack = Append(@, f)], "call", Null))

\* A Context::tryResolve that answers a recursive request with the empty
\* sptr instead of throwing.
Context_resolve_soft(m, pctx, r) ==
    LET ctx == ChildContext(pctx, r.cap, r.name)
        called == Logged([m EXCEPT !.stack = Append(@, Frame(r.op, ctx, ctx.root.loc))], "call", Null)
    IN  IF checkRecursiveResolve(ctx)
        THEN IF r.op = "resolve" THEN Thrown(called, "RecursiveResolve") ELSE Return(called, Null)
        ELSE IF r.op = "resolve" THEN _resolve(called) ELSE _tryResolve(called)

\* A Context::resolve whose child context belongs to the locator that
\* supplied the binding under construction, so that the search starts there.
Context_resolve_fromSupplier(m, pctx, r) ==
    LET ctx == ChildContext(pctx, r.cap, r.name)
        start == IF m.stack = <<>> THEN ctx.root.loc ELSE TopOf(m).loc
        called == Logged([m EXCEPT !.stack = Append(@, Frame(r.op, ctx, start))], "call", Null)
    IN  IF checkRecursiveResolve(ctx)
        THEN Thrown(called, "RecursiveResolve")
        ELSE IF r.op = "resolve" THEN _resolve(called) ELSE _tryResolve(called)

\* Context::resolve<IFace>(named) and Context::tryResolve<IFace>(named) on
\* the context pctx: the child context is made and checked against its
\* ancestors, then the locator of the context is asked.  A constructor may
\* also obtain pctx->provider<IFace>() or pctx->tryProvider<IFace>() and call
\* it with named (ops "provider", "tryProvider"): the function makes a root
\* context of the locator of pctx, checks nothing, and asks that locator.
Context_resolve(m, pctx, r) ==
    LET root == r.op \in {"provider", "tryProvider"}
        ctx == IF root
               THEN ProviderContext(pctx.root.loc, r.cap, r.name, Len(m.stack) + 1)
               ELSE ChildContext(pctx, r.cap, r.name)
        called == Logged([m EXCEPT !.stack = Append(@, Frame(r.op, ctx, ctx.root.loc))], "call", Null)
    IN  IF ~root /\ checkRecursiveResolve(ctx)
        THEN Thrown(called, "RecursiveResolve")
        ELSE IF r.op \in {"resolve", "provider"} THEN _resolve(called) ELSE _tryResolve(called)

\* The function Context::provider<IFace>() or tryProvider<IFace>() returned,
\* called with name on the locator l: it makes a root context for the
\* interface and name, checks nothing, and asks the locator.
Context_provider(m, l, r) ==
    LET ctx == ProviderContext(l, r.cap, r.name, Len(m.stack) + 1)
        called == Logged([m EXCEPT !.stack = Append(@, Frame(r.op, ctx, l))], "call", Null)
    IN  IF r.op = "provider" THEN _resolve(called) ELSE _tryResolve(called)

\* An asTransient that keeps the instance the way asSingleton does.
Constructed_keeps(m, ptr) ==
    LET f == TopOf(m)
        b == m.bindings[f.key]
        kept == [m EXCEPT !.bindings[f.key] = [b EXCEPT !.inst = ptr, !.init = TRUE]]
    IN  Got(Logged(Seen(kept, f.key, 1, ptr), "made", ptr), ptr)

\* An asSingleton that hands the instance on the way asTransient does.
Constructed_handsOn(m, ptr) ==
    Got(Logged(Seen(m, TopOf(m).key, 1, ptr), "made", ptr), ptr)

\* The construction function returned ptr to the _fnGet that called it:
\* as_clause::asSingleton keeps it and rebinds _fnGet, asTransient hands it
\* on.
Constructed(m, ptr) ==
    LET f == TopOf(m)
        b == m.bindings[f.key]
        kept == IF b.kind = "singleton"
                THEN [m EXCEPT !.bindings[f.key] = [b EXCEPT !.inst = ptr, !.init = TRUE]]
                ELSE m
    IN  Got(Logged(Seen(kept, f.key, 1, ptr), "made", ptr), ptr)

\* The script that runs in the frame on top of the stack: that of the
\* callback, or that of the constructor of the binding.
Script(m) ==
    IF TopOf(m).op = "callback" THEN Callback(TopOf(m).cb)
    ELSE Ctor(m.bindings[TopOf(m).key].impl, Self(TopOf(m).ctx).name)

\* The constructor or callback on top of the stack has a request left to make.
Asks(m) ==
    TopOf(m).ip <= Len(Script(m))

\* new TImpl(slc), or fnCreate(slc), at its next request to slc.
Ask(m) ==
    LET f == TopOf(m)
        r == Script(m)[f.ip]
    IN  CASE r.op = "resolveAll" -> Context_resolveAll(m, f.ctx, r)
          [] r.op = "afterResolve" ->
                afterResolve_fn(WithTop(m, [f EXCEPT !.ip = @ + 1]), f.ctx.root, r.cap, f.owner)
          [] OTHER ->
                Context_resolve(m,
                                IF r.op = "getContext()->resolve"
                                THEN [root |-> RootContext(f.ctx.root.loc), chain |-> <<>>]
                                ELSE f.ctx,
                                IF r.op = "getContext()->resolve"
                                THEN Req("resolve", r.cap, r.name) ELSE r)

\* The constructor of the frame on top of the stack completes the object id
\* (0: no object): the callbacks it registered now have their owner.
Owned(m, id) ==
    LET d == Len(m.stack)
    IN  [m EXCEPT !.deferred = [l \in DOMAIN @ |-> OwnedList(@[l], d, id)],
                  !.stack = OwnedStack(@, d, id)]

\* new TImpl(slc), or fnCreate(slc), returning: the new object holds what
\* the constructor resolved; a factory function may return nullptr instead.
Finish(m) ==
    LET f == TopOf(m)
        impl == m.bindings[f.key].impl
    IN  IF Makes(impl) = "nullptr"
        THEN Constructed(Owned(m, 0), Null)
        ELSE Constructed([Owned(m, m.nextId) EXCEPT !.nextId = @ + 1,
                                                     !.madeBy[m.nextId] = f.key],
                         [id |-> m.nextId, impl |-> impl, deps |-> f.deps])

\* The callback on top of the stack returns: what it resolved is now stored
\* in its owner, its root context is destroyed together with whatever is
\* left on the list of that context, and the loop that called it goes on.
CallbackReturns(m) ==
    LET f == TopOf(m)
        stored == IF f.owner = 0 \/ f.deps = <<>> THEN m
                  ELSE [m EXCEPT !.held[f.owner] = @ \o f.deps]
        logged == [stored EXCEPT !.trace = Append(@, Ev("cbret", "callback", f.cb, "", f.loc,
                                                        NoKey, Null, Len(m.stack)))]
    IN  afterResolve_loop([logged EXCEPT !.stack = SubSeq(@, 1, Len(@) - 1)])

\* The first-call lambda of asSingleton is about to store what _fnCreate
\* returned, but a nested get of the same binding has rebound _fnGet in the
\* meantime, which destroyed the closure of the lambda that is still running.
Dangling(m) ==
    /\ m.bindings[TopOf(m).key].kind = "singleton"
    /\ m.bindings[TopOf(m).key].init

Becomes(m) ==
    /\ stack' = m.stack
    /\ trace' = m.trace
    /\ bindings' = m.bindings
    /\ nextId' = m.nextId
    /\ seen' = m.seen
    /\ eager' = m.eager
    /\ deferred' = m.deferred
    /\ held' = m.held
    /\ madeBy' = m.madeBy
    /\ UNCHANGED <<parent, order>>

\* ----------------------------------------------------------------- Init

Init ==
    /\ parent = [l \in {LocPool[i] : i \in 1..Len(LocPool)} |->
                    IF l = LocPool[1] THEN NoLoc ELSE Free]
    /\ bindings = [k \in Keys |-> NoBinding]
    /\ stack = <<>>
    /\ nextId = 1
    /\ trace = <<>>
    /\ seen = [k \in Keys |-> [made |-> 0, first |-> Null, gets |-> 0, tried |-> 0]]
    /\ order = [t \in {<<k[1], k[2]>> : k \in Keys} |-> <<>>]
    /\ eager = [l \in {LocPool[i] : i \in 1..Len(LocPool)} |-> <<>>]
    /\ deferred = [l \in {LocPool[i] : i \in 1..Len(LocPool)} |-> <<>>]
    /\ held = [i \in 1..MaxId |-> <<>>]
    /\ madeBy = [i \in 1..MaxId |-> NoKey]

\* ---------------------------------------------------------------- actions

\* ServiceLocator::enter
enter(p) ==
    /\ stack = <<>>
    /\ p \in Created
    /\ \E i \in 1..Len(LocPool) :
          /\ parent[LocPool[i]] = Free
          /\ \A j \in 1..(i - 1) : parent[LocPool[j]] # Free
          /\ parent' = [parent EXCEPT ![LocPool[i]] = p]
    /\ trace' = <<>>
    /\ UNCHANGED <<bindings, stack, nextId, seen, order, eager, deferred, held, madeBy>>

\* A TypedServiceLocator::bind without the check for a taken name.
bind_rebinds(l, cap, name, kind, impl, x) ==
    /\ stack = <<>>
    /\ l \in Created
    /\ bindings' = [bindings EXCEPT ![<<l, cap, name>>] =
                      [kind |-> kind, impl |-> impl, inst |-> x, init |-> kind = "instance"]]
    /\ trace' = << Ev("bound", "bind", cap, name, l, <<l, cap, name>>, x, 0) >>
    /\ order' = [order EXCEPT ![<<l, cap>>] = Append(@, name)]
    /\ UNCHANGED <<parent, stack, nextId, seen, eager, deferred, held, madeBy>>

\* A bind that registers in the registry of the parent when the locator has
\* one.
bind_inParent(l, cap, name, kind, impl, x) ==
    LET up == IF l \in Created /\ parent[l] # NoLoc THEN parent[l] ELSE l
    IN  /\ stack = <<>>
        /\ l \in Created
        /\ IF canResolve(up, cap, name)
           THEN /\ trace' = << Ev("DuplicateBinding", "bind", cap, name, l, <<up, cap, name>>, Null, 0) >>
                /\ UNCHANGED <<bindings, order, eager>>
           ELSE /\ bindings' = [bindings EXCEPT ![<<up, cap, name>>] =
                                  [kind |-> IF kind = "eager" THEN "singleton" ELSE kind,
                                   impl |-> impl, inst |-> x, init |-> kind = "instance"]]
                /\ trace' = << Ev("bound", "bind", cap, name, l, <<up, cap, name>>, x, 0) >>
                /\ order' = [order EXCEPT ![<<up, cap>>] = Append(@, name)]
                /\ eager' = [eager EXCEPT ![up] = IF kind = "eager" THEN Append(@, <<up, cap, name>>) ELSE @]
        /\ UNCHANGED <<parent, stack, nextId, seen, deferred, held, madeBy>>

\* ServiceLocator::bind<IFace>(named) followed by the configuration the
\* client chains to it: to<TImpl>() (transient), to<TImpl>().asSingleton(),
\* to<TImpl>().asSingleton().eagerly() (kind "eager": a singleton that is
\* also put on _eagerBindings), or toInstance(x).  TypedServiceLocator::bind
\* throws before anything is configured when the name is taken.
bind(l, cap, name, kind, impl, x) ==
    /\ stack = <<>>
    /\ l \in Created
    /\ IF canResolve(l, cap, name)
       THEN /\ trace' = << Ev("DuplicateBinding", "bind", cap, name, l, <<l, cap, name>>, Null, 0) >>
            /\ UNCHANGED <<bindings, order, eager>>
       ELSE /\ bindings' = [bindings EXCEPT ![<<l, cap, name>>] =
                              [kind |-> IF kind = "eager" THEN "singleton" ELSE kind,
                               impl |-> impl, inst |-> x, init |-> kind = "instance"]]
            /\ trace' = << Ev("bound", "bind", cap, name, l, <<l, cap, name>>, x, 0) >>
            /\ order' = [order EXCEPT ![<<l, cap>>] = Append(@, name)]
            /\ eager' = [eager EXCEPT ![l] = IF kind = "eager" THEN Append(@, <<l, cap, name>>) ELSE @]
    /\ UNCHANGED <<parent, stack, nextId, seen, deferred, held, madeBy>>

\* slc->resolve<IFace>(named) or slc->tryResolve<IFace>(named), issued by
\* the client on the context slc it got from sl->getContext() at some time
\* after sl was created.
resolve(l, op, cap, name) ==
    /\ stack = <<>>
    /\ l \in Created
    /\ nextId <= MaxInst
    /\ Becomes(Context_resolve([Machine EXCEPT !.trace = <<>>],
                               [root |-> RootContext(l), chain |-> <<>>], Req(op, cap, name)))

\* slc->provider<IFace>()(named) or slc->tryProvider<IFace>()(named), issued
\* by the client.
provider(l, op, cap, name) ==
    /\ stack = <<>>
    /\ l \in Created
    /\ nextId <= MaxInst
    /\ Becomes(Context_provider([Machine EXCEPT !.trace = <<>>], l, Req(op, cap, name)))

\* slc->resolveAll<IFace>(&all), issued by the client.
resolveAll(l, cap) ==
    /\ stack = <<>>
    /\ l \in Created
    /\ nextId <= MaxInst
    /\ Becomes(Context_resolveAll([Machine EXCEPT !.trace = <<>>],
                                  [root |-> RootContext(l), chain |-> <<>>], Req("resolveAll", cap, "")))

\* sl->getContext(), issued by the client.
getContext(l) ==
    /\ stack = <<>>
    /\ l \in Created
    /\ nextId <= MaxInst
    /\ Becomes(ServiceLocator_getContext([Machine EXCEPT !.trace = <<>>], l))

\* slc->canResolve<IFace>(named), issued by the client.
Context_canResolve(l, cap, name) ==
    /\ stack = <<>>
    /\ l \in Created
    /\ trace' = << Ev(IF _canResolve(l, cap, name) THEN "true" ELSE "false",
                      "canResolve", cap, name, l, NoKey, Null, 0) >>
    /\ UNCHANGED <<parent, bindings, stack, nextId, seen, order, eager, deferred, held, madeBy>>

\* A call on the to_clause or as_clause of a binding configured earlier, the
\* client having kept the reference that bind or to returned:
\* to<TImpl>() assigns _fnGet = _fnCreate = the construction function of
\* TImpl, asTransient() assigns _fnGet = _fnCreate, asSingleton() assigns
\* _fnGet the lambda that constructs on its first call, toInstance(x) assigns
\* _fnGet the lambda that returns x.  None of them looks at what the
\* binding was configured to before.  An as_clause is obtained from to only.
\* (The _singleton an as_clause holds from an earlier first call stays in
\* inst until it is assigned again; no _fnGet reads it before assigning it.)
configure(l, cap, name, call, impl, x) ==
    LET k == <<l, cap, name>>
        b == bindings[k]
        kept == IF b.kind = "instance" THEN Null ELSE b.inst
    IN  /\ stack = <<>>
        /\ l \in Created
        /\ b.kind # "none"
        /\ call \in {"asSingleton", "asTransient"} => b.impl # "none"
        /\ bindings' = [bindings EXCEPT ![k] =
              CASE call = "to" -> [kind |-> "transient", impl |-> impl, inst |-> kept, init |-> FALSE]
                [] call = "asTransient" -> [kind |-> "transient", impl |-> b.impl, inst |-> kept, init |-> FALSE]
                [] call = "asSingleton" -> [kind |-> "singleton", impl |-> b.impl, inst |-> kept, init |-> FALSE]
                [] OTHER -> [kind |-> "instance", impl |-> b.impl, inst |-> x, init |-> TRUE]]
        /\ trace' = << Ev("configured", call, cap, name, l, k, x, 0) >>
        /\ UNCHANGED <<parent, stack, nextId, seen, order, eager, deferred, held, madeBy>>

\* The constructor that is running asks its context for its next dependency.
\* (A chain of provider calls, which nothing in the program ends, is followed
\* up to MaxDepth frames.)
CtorCall ==
    /\ stack # <<>>
    /\ TopOf(Machine).op # "callback"
    /\ Asks(Machine)
    /\ Script(Machine)[TopOf(Machine).ip].op \in {"provider", "tryProvider"} => Len(stack) < MaxDepth
    /\ Becomes(Ask(Machine))

\* The constructor that is running has all it asked for: the construction
\* function returns the new object, or nullptr.  Where the lambda that
\* receives it reads its captured this from a destroyed closure, the
\* behaviour is undefined: the read finds the pointer still in place and the
\* lambda goes on, or the program faults.
CtorDone ==
    /\ stack # <<>>
    /\ TopOf(Machine).op # "callback"
    /\ ~Asks(Machine)
    /\ \/ Becomes(Finish(Machine))
       \/ Dangling(Machine) /\ Becomes(Thrown(Machine, "fault"))

\* The deferred callback that is running makes its next call on the context
\* it was given.
CallbackCall ==
    /\ stack # <<>>
    /\ TopOf(Machine).op = "callback"
    /\ Asks(Machine)
    /\ Len(stack) < MaxDepth
    /\ Becomes(Ask(Machine))

\* The deferred callback that is running returns.
CallbackDone ==
    /\ stack # <<>>
    /\ TopOf(Machine).op = "callback"
    /\ ~Asks(Machine)
    /\ Becomes(CallbackReturns(Machine))

\* The bindings registered so far, over all locators.
Registered == {k \in Keys : bindings[k].kind # "none"}

\* The client lets go of what its last call gave it (the end of the scope
\* that held the result); the locator keeps no record of a finished call.
release ==
    /\ stack = <<>>
    /\ trace # <<>>
    /\ trace' = <<>>
    /\ UNCHANGED <<parent, bindings, stack, nextId, seen, order, eager, deferred, held, madeBy>>

\* What a client does next with the locators in L, binding with the
\* policies P (lifecycle and class) under the pairs of S; it registers at
\* most n bindings.
Client(L, P, S, n) ==
    /\ trace = <<>>
    /\ \/ \E l \in L, s \in S :
             \E p \in {q \in P : q[1] # "instance" /\ IFaceOf(q[2]) = s[1]} :
                /\ Cardinality(Registered) < n \/ canResolve(l, s[1], s[2])
                /\ bind(l, s[1], s[2], p[1], p[2], Null)
       \/ \E l \in L, s \in S :
             /\ <<"instance", "none">> \in P
             /\ Cardinality(Registered) < n \/ canResolve(l, s[1], s[2])
             /\ bind(l, s[1], s[2], "instance", "none", sa)
       \/ \E l \in L, s \in S, op \in {"resolve", "tryResolve"} : resolve(l, op, s[1], s[2])
       \/ \E l \in L, s \in S : resolveAll(l, s[1])
       \/ \E l \in L, s \in S : Context_canResolve(l, s[1], s[2])

\* One locator, every class under either lifecycle, and toInstance.
Next ==
    \/ Client({LocPool[1]},
              ({"transient", "singleton"} \X Impls) \cup {<<"instance", "none">>},
              Slots, Cardinality(Slots))
    \/ release
    \/ CtorCall
    \/ CtorDone

Spec == Init /\ [][Next]_vars

\* Nested locators, one interface, a class with at most one dependency.
NextNested ==
    \/ trace = <<>> /\ \E p \in Created : enter(p)
    \/ Client(Created,
              {<<"transient", "Wrapper">>, <<"singleton", "Wrapper">>, <<"transient", "NullT">>},
              {s \in Slots : s[1] = "ITest"}, MaxBind)
    \/ release
    \/ CtorCall
    \/ CtorDone

SpecNested == Init /\ [][NextNested]_vars

\* One locator, one interface, singletons that may be eager, and getContext.
NextEager ==
    \/ Client({LocPool[1]},
              {"transient", "singleton", "eager"} \X {"TestA", "NeedsX", "Wrapper"},
              {s \in Slots : s[1] = "ITest"}, MaxBind)
    \/ trace = <<>> /\ getContext(LocPool[1])
    \/ release
    \/ CtorCall
    \/ CtorDone

SpecEager == Init /\ [][NextEager]_vars

\* One locator, classes that register deferred callbacks and classes whose
\* constructors resolve each other.
NextDeferred ==
    \/ Client({LocPool[1]},
              {"transient", "singleton"} \X (DeferredImpls \cup {"TestC", "NeedsC"}),
              {<<"ITest", "">>, <<"TestC", "">>}, MaxBind)
    \/ release
    \/ CtorCall
    \/ CtorDone
    \/ CallbackCall
    \/ CallbackDone

SpecDeferred == Init /\ [][NextDeferred]_vars

\* A step of a call in progress: every such step logs an event.
Proceeds == stack # <<>> /\ trace' # trace

\* A call in progress can take a step: the constructor or callback on top
\* of the stack makes its next call or returns, unless it is a callback
\* held back by MaxDepth.
Pending ==
    /\ stack # <<>>
    /\ ~(TopOf(Machine).op = "callback" /\ Asks(Machine) /\ Len(stack) >= MaxDepth)

\* A call that was made goes on, the thread that runs it being never
\* suspended for ever between two steps of a constructor or callback: weak
\* fairness of the steps CtorCall, CtorDone, CallbackCall and CallbackDone,
\* written out as "infinitely often no step is possible or infinitely often
\* a step is taken", with Pending for the enabledness of these steps.
SpecDeferredLive ==
    SpecDeferred /\ ([]<>(~Pending) \/ []<><<Proceeds>>_vars)

\* One locator, one interface, one class, and a client that keeps the clauses bind and
\* to returned and calls them again on a binding it configured before.
NextConfig ==
    \/ Client({LocPool[1]},
              ({"transient", "singleton"} \X {"Wrapper"}) \cup {<<"instance", "none">>},
              {s \in Slots : s[1] = "ITest"}, MaxBind)
    \/ /\ trace = <<>>
       /\ \E s \in {t \in Slots : t[1] = "ITest"} :
             \/ \E impl \in {"Wrapper"} : configure(LocPool[1], s[1], s[2], "to", impl, Null)
             \/ \E call \in {"asSingleton", "asTransient"} :
                   configure(LocPool[1], s[1], s[2], call, "none", Null)
             \/ configure(LocPool[1], s[1], s[2], "toInstance", "none", sa)
    \/ release
    \/ CtorCall
    \/ CtorDone

SpecConfig == Init /\ [][NextConfig]_vars

\* One locator, classes that resolve their dependencies, and a client that
\* resolves through the context of the locator and through providers.
NextProvider ==
    \/ Client({LocPool[1]},
              {"transient", "singleton"} \X {"TestC", "NeedsC", "NullT", "ViaProvider"},
              {<<"ITest", "">>, <<"TestC", "">>}, MaxBind)
    \/ /\ trace = <<>>
       /\ \E s \in {<<"ITest", "">>, <<"TestC", "">>}, op \in {"provider", "tryProvider"} :
             provider(LocPool[1], op, s[1], s[2])
    \/ release
    \/ CtorCall
    \/ CtorDone

SpecProvider == Init /\ [][NextProvider]_vars

\* ------------------------------------------------------------ observations

\* The frame whose entry (a call, or the start of a callback) is logged at j
\* was still on the stack when the event at i was logged.
Open(j, i) ==
    /\ j < i
    /\ trace[j].e \in {"call", "cb"}
    /\ trace[j].depth < trace[i].depth
    /\ \A h \in (j + 1)..(i - 1) :
          ~(trace[h].e \in {"call", "cb"} /\ trace[h].depth = trace[j].depth)

\* The contexts above that of the call logged at i: the calls still in
\* progress, up to the callback (if any) for which the root context of the
\* call was made.
Ancestors(i) ==
    {j \in 1..(i - 1) :
        /\ Open(j, i)
        /\ trace[j].e = "call"
        /\ \A h \in (j + 1)..(i - 1) : ~(Open(h, i) /\ trace[h].e = "cb")}

\* The call logged at i asks for the interface and name of a context above it.
Conflicts(i) ==
    \E j \in Ancestors(i) : trace[j].cap = trace[i].cap /\ trace[j].name = trace[i].name

\* The locator l and its ancestors.
RECURSIVE Chain(_)
Chain(l) ==
    IF parent[l] = NoLoc THEN {l} ELSE {l} \cup Chain(parent[l])

\* Some locator of the chain of l has a binding for exactly (cap, name).
Bound(l, cap, name) ==
    \E a \in Chain(l) : canResolve(a, cap, name)

\* The binding for (cap, name) closest to l on its chain.
RECURSIVE Closest(_, _, _)
Closest(l, cap, name) ==
    IF canResolve(l, cap, name) THEN <<l, cap, name>>
    ELSE IF parent[l] = NoLoc THEN NoKey
    ELSE Closest(parent[l], cap, name)

\* The events the step appended to the trace.
Appended ==
    IF Len(trace') >= Len(trace) /\ SubSeq(trace', 1, Len(trace)) = trace
    THEN (Len(trace) + 1)..Len(trace')
    ELSE {}

\* Event i of tr hands an instance of a transient binding to whoever asked.
ServedTransient(tr, i) ==
    /\ tr[i].e \in {"ret", "push"}
    /\ tr[i].key # NoKey
    /\ bindings[tr[i].key].kind = "transient"
    /\ tr[i].val # Null

\* The runs of the construction function of the binding served at i, since
\* the request it serves began.
CtorRuns(tr, i) ==
    LET d == tr[i].depth
        begins == {j \in 1..(i - 1) : tr[j].depth = d /\ tr[j].e \in {"call", "push"}}
        from == CHOOSE j \in begins : \A h \in begins : h <= j
    IN  {h \in (from + 1)..(i - 1) :
            tr[h].e = "ctor" /\ tr[h].depth = d /\ tr[h].key = tr[i].key}

\* A call carried through to its end: every constructor it starts runs to
\* completion, or an exception ends it.
RECURSIVE Run(_)
Run(m) ==
    IF m.stack = <<>> THEN m
    ELSE IF Asks(m) THEN Run(Ask(m))
    ELSE IF TopOf(m).op = "callback" THEN Run(CallbackReturns(m))
    ELSE Run(Finish(m))

\* How a finished call ended, and with which instance.
Outcome(m) ==
    <<m.trace[Len(m.trace)].e, m.trace[Len(m.trace)].val>>

\* ------------------------------------------------------------------ claims

\* C1: for a singleton binding the construction function completes at most
\* once, and every resolve, tryResolve and resolveAll served by the binding
\* gets the instance the first one got.
C1_SingletonOnce ==
    \A k \in Keys :
        bindings[k].kind = "singleton" =>
            /\ seen[k].made <= 1
            /\ \A i \in 1..Len(trace) :
                  (trace[i].key = k /\ trace[i].e \in {"get", "made", "ret", "push"})
                      => trace[i].val = seen[k].first

\* C2: every request served by a transient binding ran its construction
\* function exactly once, and the instance it returns was made in the step
\* that returns it, so it differs from every instance returned before.
C2_TransientFresh ==
    [][\A i \in Appended :
          ServedTransient(trace', i) =>
              /\ Cardinality(CtorRuns(trace', i)) = 1
              /\ trace'[i].val.id = nextId
              /\ nextId' = nextId + 1]_vars

\* A resolve of the client was served by a transient binding with an
\* instance made after another one.
C2_Witness ==
    \E i \in 1..Len(trace) :
        /\ ServedTransient(trace, i)
        /\ trace[i].op = "resolve"
        /\ trace[i].depth = 1
        /\ trace[i].val.id = 2

\* C3: whatever is served by a toInstance(x) binding is exactly x, whether
\* asked by the client or by a constructor, and its binding never runs a
\* construction function.
C3_InstanceAsGiven ==
    \A i \in 1..Len(trace) :
        LET ev == trace[i]
            c == Closest(ev.from, ev.cap, ev.name)
        IN  /\ (ev.key # NoKey /\ bindings[ev.key].kind = "instance") =>
                  /\ ev.e \notin {"ctor", "made"}
                  /\ ev.e \in {"get", "ret", "push"} => ev.val = sa
            /\ (ev.e = "ret" /\ ev.op \in {"resolve", "tryResolve"}
                  /\ c # NoKey /\ bindings[c].kind = "instance") => ev.val = sa

\* A constructor asked its context for a toInstance binding and got x.
C3_Witness ==
    \E i \in 1..Len(trace) :
        /\ trace[i].e = "ret"
        /\ trace[i].depth = 2
        /\ trace[i].key # NoKey
        /\ bindings[trace[i].key].kind = "instance"
        /\ trace[i].val = sa

\* C4: a bind for a pair the locator's own registry already holds fails with
\* DuplicateBinding and changes no binding; a registered binding keeps its
\* lifecycle and class whatever is attempted later.
C4_DuplicateRejected ==
    [][/\ (trace = <<>> /\ Len(trace') = 1 /\ trace'[1].op = "bind"
             /\ bindings[trace'[1].key].kind # "none")
          => (trace'[1].e = "DuplicateBinding" /\ bindings' = bindings)
       /\ \A k \in Keys :
             bindings[k].kind # "none" =>
                 /\ bindings'[k].kind = bindings[k].kind
                 /\ bindings'[k].impl = bindings[k].impl]_vars

\* A bind was just rejected as a duplicate.
C4_Witness ==
    /\ Len(trace) = 1
    /\ trace[1].e = "DuplicateBinding"
    /\ bindings[trace[1].key].kind # "none"

\* C5: a bind in a child is rejected only for a pair of the child's own
\* registry, and what a resolve through a locator returns comes from the
\* binding closest to that locator on its chain.
C5_ClosestBindingServes ==
    \A i \in 1..Len(trace) :
        /\ trace[i].e = "DuplicateBinding" => canResolve(trace[i].from, trace[i].cap, trace[i].name)
        /\ (trace[i].e = "ret" /\ trace[i].op = "resolve" /\ trace[i].depth = 1)
              => trace[i].key = Closest(trace[i].from, trace[i].cap, trace[i].name)

\* C6: canResolve through a locator answers true exactly when some locator
\* of its chain has a binding for exactly that interface and name.
C6_CanResolveWholeChain ==
    (Len(trace) = 1 /\ trace[1].op = "canResolve")
        => ((trace[1].e = "true") <=> Bound(trace[1].from, trace[1].cap, trace[1].name))

\* C7: a resolve fails with UnableToResolve exactly when no locator of the
\* chain has a binding for the interface and name asked for.
C7_UnableIffUnbound ==
    \A i \in 1..Len(trace) :
        /\ trace[i].e = "UnableToResolve"
              => ~Bound(trace[i].from, trace[i].cap, trace[i].name)
        /\ (trace[i].e = "call" /\ trace[i].op = "resolve" /\ ~Conflicts(i)
              /\ ~Bound(trace[i].from, trace[i].cap, trace[i].name))
              => (i < Len(trace) /\ trace[i + 1].e = "UnableToResolve")

\* C8: tryResolve returns the empty sptr when no locator of the chain has
\* the binding, and otherwise ends as resolve does: the same outcome and
\* instance, the same constructions, the same bindings afterwards.
C8_TryResolveAsResolve ==
    stack = <<>> =>
        \A l \in Created, s \in Slots :
            LET from == [Machine EXCEPT !.trace = <<>>]
                root == [root |-> RootContext(l), chain |-> <<>>]
                r == Run(Context_resolve(from, root, Req("resolve", s[1], s[2])))
                t == Run(Context_resolve(from, root, Req("tryResolve", s[1], s[2])))
            IN  IF ~Bound(l, s[1], s[2])
                THEN Outcome(t) = <<"ret", Null>>
                ELSE /\ Outcome(t) = Outcome(r)
                     /\ t.bindings = r.bindings
                     /\ t.nextId = r.nextId
                     /\ t.seen = r.seen
                     /\ t.deferred = r.deferred
                     /\ t.held = r.held
                     /\ t.madeBy = r.madeBy

\* C9: a resolve fails with RecursiveResolve exactly when a context above it
\* has the same interface and the same name; the failing request runs no
\* construction function; the same interface under another name passes.
C9_RecursiveIffAncestor ==
    \A i \in 1..Len(trace) :
        (trace[i].e = "call" /\ trace[i].op = "resolve") =>
            /\ i < Len(trace)
            /\ Conflicts(i) <=> trace[i + 1].e = "RecursiveResolve"
            /\ Conflicts(i) => (i + 1 = Len(trace) /\ stack = <<>>)

\* A resolve two constructors deep was rejected for a context above it,
\* after a resolve of the same interface under another name went through.
C9_Witness ==
    \E i \in 1..Len(trace) :
        /\ trace[i].e = "call"
        /\ trace[i].op = "resolve"
        /\ trace[i].depth = 3
        /\ Conflicts(i)
        /\ trace[Len(trace)].e = "RecursiveResolve"
        /\ \E j \in Ancestors(i), h \in Ancestors(i) :
              /\ j < h
              /\ trace[j].cap = trace[h].cap
              /\ trace[j].name # trace[h].name
              /\ trace[h + 1].e = "ctor"

\* C10: a tryResolve for the interface and name of a context above it fails
\* with RecursiveResolve, which ends the whole call; it never returns the
\* empty sptr.
C10_TryResolveRecursionThrows ==
    \A i \in 1..Len(trace) :
        (trace[i].e = "call" /\ trace[i].op = "tryResolve" /\ Conflicts(i)) =>
            /\ i + 1 = Len(trace)
            /\ trace[i + 1].e = "RecursiveResolve"
            /\ stack = <<>>

\* A constructor's tryResolve asked for what is being constructed above it.
C10_Witness ==
    \E i \in 1..Len(trace) :
        /\ trace[i].e = "call"
        /\ trace[i].op = "tryResolve"
        /\ Conflicts(i)
        /\ trace[Len(trace)].e = "RecursiveResolve"

\* The bindings of the interface that a resolveAll through l is to
\* enumerate: those of l in the order of their registration, then those of
\* its ancestors.
RECURSIVE Registration(_, _)
Registration(l, cap) ==
    LET own == [i \in 1..Len(order[<<l, cap>>]) |-> <<l, cap, order[<<l, cap>>][i]>>]
    IN  IF parent[l] = NoLoc THEN own ELSE own \o Registration(parent[l], cap)

\* The resolveAll of the client has returned.
ResolvedAll ==
    /\ stack = <<>>
    /\ trace # <<>>
    /\ trace[Len(trace)].e = "ret"
    /\ trace[Len(trace)].op = "resolveAll"

\* The bindings whose instances the resolveAll of the client pushed, in the
\* order of the pushes.
Pushes ==
    LET at == SelectSeq([i \in 1..Len(trace) |-> i],
                        LAMBDA i : trace[i].e = "push" /\ trace[i].depth = 1)
    IN  [j \in 1..Len(at) |-> trace[at[j]].key]

\* C11: resolveAll returns the instances of a locator's bindings in the
\* order in which the bindings were registered, the closest locator first.
C11_RegistrationOrder ==
    ResolvedAll => Pushes = Registration(trace[1].from, trace[1].cap)

\* C12: a resolveAll that returns has pushed exactly one instance for each
\* binding of the interface in the originating locator and in each of its
\* ancestors, shadowed or not, and what it returns holds these and nothing
\* else; with no such binding anywhere it returns an empty sequence, and
\* resolveAll itself never raises UnableToResolve.
C12_OnePerBinding ==
    LET asked == {k \in Keys : k[1] \in Chain(trace[1].from) /\ k[2] = trace[1].cap
                                  /\ bindings[k].kind # "none"}
    IN  /\ ResolvedAll =>
              /\ {Pushes[j] : j \in 1..Len(Pushes)} = asked
              /\ Len(Pushes) = Cardinality(asked)
              /\ Len(trace[Len(trace)].val.deps) = Cardinality(asked)
        /\ (trace # <<>> /\ trace[1].op = "resolveAll") =>
              /\ asked = {} => ResolvedAll
              /\ \A i \in 1..Len(trace) :
                    trace[i].op = "resolveAll" => trace[i].e # "UnableToResolve"

\* A resolveAll through a child returned the instance of the child's binding
\* and that of the binding its parent has under the same name.
C12_Witness ==
    /\ ResolvedAll
    /\ \E i, j \in 1..Len(Pushes) :
          /\ Pushes[i][1] # Pushes[j][1]
          /\ Pushes[i][3] = Pushes[j][3]

\* The getContext of the client has returned.
GotContext ==
    /\ stack = <<>>
    /\ trace # <<>>
    /\ trace[Len(trace)].e = "ret"
    /\ trace[Len(trace)].op = "getContext"

\* C13: bind with eagerly() constructs nothing; when getContext returns,
\* each eager singleton it found pending has been constructed exactly once
\* and is what its binding holds, the list of pending eager bindings is
\* empty, and what is returned is the persistent context of the locator; a
\* getContext that finds nothing pending only returns that context.
C13_EagerOnce ==
    /\ (Len(trace) = 1 /\ trace[1].e = "bound" /\ bindings[trace[1].key].kind = "singleton")
          => (seen[trace[1].key].made = 0 /\ ~bindings[trace[1].key].init)
    /\ GotContext =>
          /\ eager[trace[1].from] = <<>>
          /\ trace[Len(trace)].val = ContextOf(trace[1].from)
          /\ \A i \in 2..(Len(trace) - 1) :
                (trace[i].e = "call" /\ trace[i].depth = 1) =>
                    /\ seen[trace[i].key].made = 1
                    /\ bindings[trace[i].key].init
                    /\ bindings[trace[i].key].inst = seen[trace[i].key].first
          /\ (\A i \in 2..(Len(trace) - 1) : trace[i].depth # 1) => Len(trace) = 2

\* The two singletons wired through a deferred callback: A is a Late under
\* (ITest, ""), whose constructor registers the callback that resolves TestC
\* and stores it in the Late; B is a TestC under (TestC, ""), whose
\* constructor obtains (ITest, "").
WiredA == <<LocPool[1], "ITest", "">>

WiredB == <<LocPool[1], "TestC", "">>

\* B obtains A: no B was constructed while A was not bound yet, when the
\* tryResolve of its constructor gave it nothing.
Wired ==
    /\ bindings[WiredA].kind = "singleton" /\ bindings[WiredA].impl = "Late"
    /\ bindings[WiredB].kind = "singleton" /\ bindings[WiredB].impl = "TestC"
    /\ bindings[WiredB].inst.deps # <<Null>>

\* A top-level resolve or tryResolve of A on the root context is over.
ResolvedA ==
    /\ stack = <<>>
    /\ trace # <<>>
    /\ trace[1].e = "call" /\ trace[1].op \in {"resolve", "tryResolve"}
    /\ trace[1].cap = WiredA[2] /\ trace[1].name = WiredA[3]

\* C14: with the singletons A and B wired through a deferred callback, a
\* top-level resolve of A raises no RecursiveResolve (it returns A), and
\* afterwards A holds B and B holds that same A.
C14_WiredThroughCallback ==
    (Wired /\ ResolvedA) =>
        LET a == bindings[WiredA].inst
            b == bindings[WiredB].inst
            last == trace[Len(trace)]
        IN  /\ \A i \in 1..Len(trace) : trace[i].e # "RecursiveResolve"
            /\ last.e = "ret" /\ last.depth = 1 /\ last.val = a
            /\ a.id > 0 /\ b.id > 0
            /\ \E i \in 1..Len(held[a.id]) : held[a.id][i] = b
            /\ b.deps = <<a>>

\* The top-level resolve of A constructed A and B, and ran the callback.
C14_Witness ==
    /\ Wired /\ ResolvedA
    /\ \E i \in 1..Len(trace) : trace[i].e = "made" /\ trace[i].key = WiredA
    /\ \E i \in 1..Len(trace) : trace[i].e = "made" /\ trace[i].key = WiredB
    /\ \E i \in 1..Len(trace) : trace[i].e = "cb" /\ trace[i].cap = "wire"
    /\ bindings[WiredB].inst.deps = <<bindings[WiredA].inst>>

\* A top-level resolve, tryResolve or resolveAll on the root context has
\* returned to its caller.
TopReturned ==
    /\ stack = <<>>
    /\ trace # <<>>
    /\ trace[1].e = "call" /\ trace[1].op \in {"resolve", "tryResolve", "resolveAll"}
    /\ trace[Len(trace)].e = "ret" /\ trace[Len(trace)].depth = 1

\* The callbacks named cb that the events i..Len(trace) register, and those
\* that they start.
Registrations(cb, i) ==
    Cardinality({j \in i..Len(trace) : trace[j].e = "defer" /\ trace[j].cap = cb})

Runs(cb, i) ==
    Cardinality({j \in i..Len(trace) : trace[j].e = "cb" /\ trace[j].cap = cb})

\* C15: when a top-level resolve has returned, every callback registered
\* during it (by a constructor at any depth, or by a callback on the context
\* it received) was run after its registration; callbacks are started only
\* after the get of the top-level binding returned, and only by a resolve
\* made on a root context, never by a nested one.
C15_EveryCallbackRuns ==
    TopReturned =>
        /\ \A i \in 1..Len(trace) :
              trace[i].e = "defer" => Runs(trace[i].cap, i) >= Registrations(trace[i].cap, i)
        /\ \A i \in 1..Len(trace) :
              trace[i].e = "cb" =>
                 /\ \E j \in 1..(i - 1) :
                       trace[j].depth = 1 /\ trace[j].e \in {"made", "get", "push"}
                 /\ \/ trace[i].depth = 2
                    \/ \E j \in 1..(i - 1) :
                          Open(j, i) /\ trace[j].e = "cb" /\ trace[j].depth = trace[i].depth - 2

\* The identities of the objects reachable from inst through what their
\* constructors kept.
RECURSIVE Objects(_)
Objects(inst) ==
    (IF inst.id > 0 THEN {inst.id} ELSE {})
        \cup UNION {Objects(inst.deps[i]) : i \in 1..Len(inst.deps)}

\* C16: what a resolve through a locator returns, and every dependency that
\* instance holds, was constructed by a binding of that locator or of one of
\* its ancestors, never by a binding of a child or sibling.
C16_ChildBindingsInvisible ==
    \A i \in 1..Len(trace) :
        (trace[i].e = "ret" /\ trace[i].depth = 1 /\ trace[i].op \in {"resolve", "tryResolve"})
            => \A id \in Objects(trace[i].val) : madeBy[id][1] \in Chain(trace[i].from)

\* The step is a bind of (cap, name) on the locator b that was accepted.
Binds(b, cap, name) ==
    /\ Len(trace') = 1 /\ trace'[1].e = "bound"
    /\ trace'[1].from = b /\ trace'[1].cap = cap /\ trace'[1].name = name

\* The step leaves what canResolve answers through l as it was.
SameAnswers(l) ==
    \A s \in Slots : _canResolve(l, s[1], s[2])' = _canResolve(l, s[1], s[2])

\* C17: enter() changes no answer of canResolve through an existing locator;
\* a bind on a locator changes no answer of canResolve through a locator
\* that is neither that locator nor below it (its ancestors, its siblings),
\* and the pair bound is then resolvable through the locator it was bound in.
C17_BindStaysInChild ==
    [][ /\ parent' # parent => \A l \in Created : SameAnswers(l)
        /\ \A b \in Created : \A s \in Slots :
              Binds(b, s[1], s[2]) =>
                 /\ \A l \in Created : b \notin Chain(l) => SameAnswers(l)
                 /\ _canResolve(b, s[1], s[2])'
      ]_vars

\* A pair was just bound in a child only: canResolve answers true through
\* the child and false through its parent.
C17_Witness ==
    /\ Len(trace) = 1 /\ trace[1].e = "bound"
    /\ parent[trace[1].from] \in Created
    /\ _canResolve(trace[1].from, trace[1].cap, trace[1].name)
    /\ ~_canResolve(parent[trace[1].from], trace[1].cap, trace[1].name)
    /\ \E c \in Created : c # trace[1].from /\ parent[c] = parent[trace[1].from]
                            /\ ~_canResolve(c, trace[1].cap, trace[1].name)

Errors == {"UnableToResolve", "RecursiveResolve", "BindingIssue", "DuplicateBinding", "fault"}

\* C18: an exception leaves every frame, so it reaches the caller; a
\* singleton binding holds an instance exactly when a run of its
\* construction function has returned, and then holds what the latest such
\* run returned; it never serves from its store before that, whatever
\* number of runs of the construction function failed.
C18_FailedSingletonRetries ==
    /\ \A i \in 1..Len(trace) : trace[i].e \in Errors => (i = Len(trace) /\ stack = <<>>)
    /\ \A k \in Keys :
          bindings[k].kind = "singleton" =>
             /\ seen[k].made <= seen[k].tried \/ seen[k].tried = 2
             /\ bindings[k].init <=> seen[k].made >= 1
             /\ ~bindings[k].init => bindings[k].inst = Null
             /\ \A i \in 1..Len(trace) :
                   trace[i].key = k =>
                      /\ trace[i].e = "get" => seen[k].made >= 1
                      /\ (trace[i].e = "made"
                            /\ \A j \in (i + 1)..Len(trace) :
                                  ~(trace[j].key = k /\ trace[j].e = "made"))
                            => bindings[k].inst = trace[i].val

\* A singleton whose construction function failed once and, run again by a
\* later get, returned the instance the binding now holds.
C18_Witness ==
    /\ stack = <<>>
    /\ \E k \in Keys :
          /\ bindings[k].kind = "singleton"
          /\ seen[k].tried = 2 /\ seen[k].made = 1
          /\ bindings[k].init /\ bindings[k].inst.id > 0
          /\ Cardinality({i \in 1..Len(trace) : trace[i].key = k /\ trace[i].e = "ctor"}) = 1
          /\ \E i \in 1..Len(trace) :
                trace[i].key = k /\ trace[i].e = "made" /\ trace[i].val = bindings[k].inst

\* The frames a call can nest when every context chain holds each bound
\* pair at most once: the chain of the top-level call, one callback, and
\* the chain of the resolve that callback makes.
DepthBound == 2 * Cardinality({k \in Keys : bindings[k].kind # "none"}) + 1

\* A call that is over returned an instance, returned empty (tryResolve
\* only), or failed with one of the defined errors.
Ended ==
    (stack = <<>> /\ trace # <<>> /\ trace[1].e = "call") =>
        LET last == trace[Len(trace)]
        IN  \/ last.e = "ret" /\ last.depth = 1 /\ (last.val = Null => last.op = "tryResolve")
            \/ last.e \in {"DuplicateBinding", "RecursiveResolve", "UnableToResolve", "BindingIssue"}

\* C19: every top-level call ends, in one of the defined ways, and the
\* frames in flight never exceed the bound the cycle check gives.
C19_Terminates ==
    /\ [](Ended /\ Len(stack) <= DepthBound)
    /\ (stack # <<>>) ~> (stack = <<>>)

\* The objects a binding of the locators refers to, directly or through
\* what the objects it holds keep.
EngineHeld ==
    UNION {Objects(bindings[k].inst) : k \in Keys}

\* C20: a transient binding never holds an instance; when the client lets
\* go of what a top-level resolve gave it, an object that came from a
\* transient binding is referred to by no binding any more (it is
\* destroyed), and one that came from a singleton binding is still held by
\* that binding.
C20_OnlySingletonsHeld ==
    [][ /\ \A k \in Keys :
              bindings'[k].kind = "transient" => (bindings'[k].inst = Null /\ ~bindings'[k].init)
        /\ (stack = <<>> /\ trace # <<>> /\ trace' = <<>>) =>
              LET last == trace[Len(trace)]
              IN  (last.e = "ret" /\ last.depth = 1 /\ last.op \in {"resolve", "tryResolve"}
                      /\ last.val.id > 0) =>
                     /\ bindings[last.key].kind = "transient" => last.val.id \notin EngineHeld'
                     /\ bindings[last.key].kind = "singleton" =>
                           (bindings'[last.key].init /\ bindings'[last.key].inst = last.val)
      ]_vars

\* Nothing is in the hands of a client; an object that a transient binding
\* constructed is held by no binding, and a singleton binding holds the
\* object it constructed.
C20_Witness ==
    /\ stack = <<>> /\ trace = <<>>
    /\ \E id \in 1..(nextId - 1) :
          /\ madeBy[id] # NoKey
          /\ bindings[madeBy[id]].kind = "transient"
          /\ id \notin EngineHeld
    /\ \E k \in Keys :
          /\ bindings[k].kind = "singleton" /\ bindings[k].init
          /\ bindings[k].inst.id > 0 /\ madeBy[bindings[k].inst.id] = k

\* The callbacks named cb that the events 1..i of the trace (those of the
\* call in progress or just over) register, and those they start.
RegisteredUpTo(cb, i) ==
    Cardinality({j \in 1..i : trace[j].e = "defer" /\ trace[j].cap = cb})

StartedUpTo(cb, i) ==
    Cardinality({j \in 1..i : trace[j].e = "cb" /\ trace[j].cap = cb})

\* C21: when no call is in progress the persistent root context of every
\* locator holds no pending callback, whether the last top-level call
\* returned or failed; and every callback a top-level call runs was
\* registered during that same call.
C21_QueueOwnedByCall ==
    /\ stack = <<>> => \A l \in Created : deferred[l] = <<>>
    /\ \A i \in 1..Len(trace) :
          trace[i].e = "cb" => StartedUpTo(trace[i].cap, i) <= RegisteredUpTo(trace[i].cap, i)

\* The step is a configuration call on the binding k, which was configured
\* before.
Reconfigures(k) ==
    /\ bindings[k].kind # "none"
    /\ Len(trace') = 1
    /\ trace'[1].op \in {"to", "asSingleton", "asTransient", "toInstance"}
    /\ trace'[1].key = k

\* C22: a configuration call on a binding that is configured already is
\* rejected with BindingIssue, and leaves the binding with the policy (and
\* construction function, and instance) it had.
C22_ConfiguredOnce ==
    [][ \A k \in Keys :
           Reconfigures(k) => (trace'[1].e = "BindingIssue" /\ bindings'[k] = bindings[k])
      ]_vars

\* The step belongs to a resolve, tryResolve, resolveAll or canResolve that
\* the client issued on the context of the locator l.
IssuedThrough(l) ==
    /\ trace' # <<>>
    /\ trace'[1].e \in {"call", "true", "false"}
    /\ trace'[1].op \in {"resolve", "tryResolve", "resolveAll", "canResolve"}
    /\ trace'[1].from = l

\* C23: no step of a call issued through a locator changes what an ancestor
\* of that locator owns: the ancestor's bindings, with their lifecycle state
\* and the instance they hold, and its list of eager bindings.
C23_ParentUntouched ==
    [][ \A l \in Created :
           IssuedThrough(l) =>
              /\ \A k \in Keys :
                    (k[1] # l /\ k[1] \in Chain(l)) => bindings'[k] = bindings[k]
              /\ \A a \in Chain(l) \ {l} : eager'[a] = eager[a]
      ]_vars

\* C24: a resolve or tryResolve that a construction function makes on the
\* context it was given searches from the locator the top-level call was
\* issued through, whichever ancestor supplied the binding under
\* construction: unless the request is recursive, the first thing the call
\* does is the get of the binding closest to that locator on its chain, and
\* where the chain has no such binding no get is made at all.
C24_NestedSearchFromOrigin ==
    \A i \in 1..Len(trace) :
        (trace[i].e = "call" /\ trace[i].depth > 1 /\ trace[i].op \in {"resolve", "tryResolve"}) =>
            LET k == Closest(trace[1].from, trace[i].cap, trace[i].name)
            IN  /\ i < Len(trace)
                /\ \/ trace[i + 1].e = "RecursiveResolve"
                   \/ k = NoKey /\ trace[i + 1].e \in {"UnableToResolve", "ret"}
                   \/ k # NoKey /\ trace[i + 1].e \in {"ctor", "get"} /\ trace[i + 1].key = k

\* A resolve through a child was served by a binding of its parent, whose
\* construction function resolved a dependency that a binding of the child
\* served.
C24_Witness ==
    \E i, j \in 1..Len(trace) :
        /\ trace[1].e = "call" /\ parent[trace[1].from] \in Created
        /\ trace[i].e = "ctor" /\ trace[i].depth = 1 /\ trace[i].key[1] = parent[trace[1].from]
        /\ j > i /\ j < Len(trace) /\ trace[j].e = "call" /\ trace[j].depth = 2
        /\ trace[j + 1].e \in {"ctor", "get"} /\ trace[j + 1].key[1] = trace[1].from
        /\ stack = <<>> /\ trace[Len(trace)].e = "ret"

\* The requests in flight when the exception logged at i was thrown: the
\* calls above the failing call, up to the callback (if any) for which its
\* root context was made, and the failing call itself.
InFlight(i) ==
    Ancestors(i) \cup
        {j \in 1..(i - 1) :
            /\ trace[j].e = "call" /\ trace[j].depth = trace[i].depth
            /\ \A h \in (j + 1)..(i - 1) :
                  ~(trace[h].e = "call" /\ trace[h].depth = trace[i].depth)}

\* The n-th smallest member of the set S of numbers.
Nth(S, n) == CHOOSE j \in S : Cardinality({h \in S : h < j}) = n - 1

\* The concrete type that the context of the frame at depth d has been
\* assigned when the event at i is logged: that of the construction function
\* the frame has started since its context was made.
ConcreteAt(d, i) ==
    LET marks == {h \in 1..(i - 1) : trace[h].depth = d /\ trace[h].e \in {"call", "push", "ctor"}}
        last == CHOOSE h \in marks : \A g \in marks : g <= h
    IN  IF trace[last].e = "ctor" THEN bindings[trace[last].key].impl ELSE NoType

\* C25: the resolve path in the message of a RecursiveResolve or
\* UnableToResolve exception lists exactly the requests in flight, outermost
\* first and the failing one last, each with its interface, its name and the
\* concrete type its context was assigned (if any); only a placeholder root
\* context, which no request made, has no entry.
C25_PathIsRequesterChain ==
    \A i \in 1..Len(trace) :
        trace[i].e \in {"RecursiveResolve", "UnableToResolve"} =>
            /\ Len(trace[i].path) = Cardinality(InFlight(i))
            /\ \A n \in 1..Len(trace[i].path) :
                  LET j == Nth(InFlight(i), n)
                  IN  trace[i].path[n] = [cap |-> trace[j].cap, name |-> trace[j].name,
                                          ctype |-> ConcreteAt(trace[j].depth, i)]

\* The events of tr after the one at h and before the one at i show that
\* the frame at the depth of both had the same context throughout: it began
\* no call, and no visit of a further binding, in between.
SameContext(tr, h, i) ==
    \A g \in (h + 1)..(i - 1) :
        ~(tr[g].depth = tr[h].depth /\ tr[g].e \in {"call", "push", "cb"})

\* In tr no context is assigned a concrete type twice, and BindingIssue is
\* thrown only where a context that has a concrete type is to get another.
AssignedOnce(tr) ==
    \A i \in 1..Len(tr) :
        /\ tr[i].e = "ctor" =>
              \A h \in 1..(i - 1) :
                  (tr[h].e = "ctor" /\ tr[h].depth = tr[i].depth) => ~SameContext(tr, h, i)
        /\ tr[i].e = "BindingIssue" =>
              \E h \in 1..(i - 1) :
                  tr[h].e = "ctor" /\ tr[h].depth = tr[i].depth /\ SameContext(tr, h, i)

\* The step leaves the context of the frame at depth d in place.
ContextStays(d) ==
    /\ d <= Len(stack')
    /\ \A i \in Appended : ~(trace'[i].depth = d /\ trace'[i].e \in {"call", "push", "cb"})

\* C26: a context is assigned a concrete type at most once, a further
\* assignment failing with BindingIssue; as long as a context exists its
\* interface and name stay what they were, and so does its concrete type
\* once it has one.
C26_ConcreteTypeOnce ==
    [][ /\ AssignedOnce(trace')
        /\ \A d \in 1..Len(stack) :
              ContextStays(d) =>
                 LET old == Self(stack[d].ctx)
                     new == Self(stack'[d].ctx)
                 IN  /\ new.cap = old.cap /\ new.name = old.name
                     /\ old.ctype # NoType => new.ctype = old.ctype
      ]_vars

\* A call just failed with BindingIssue: the binding asked first constructed
\* nothing, and the next binding was about to assign the concrete type of
\* the same context again.
C26_Witness ==
    /\ stack = <<>> /\ Len(trace) >= 3
    /\ trace[Len(trace)].e = "BindingIssue"
    /\ \E h \in 1..(Len(trace) - 1) :
          /\ trace[h].e = "ctor" /\ trace[h].depth = trace[Len(trace)].depth
          /\ trace[h].key # trace[Len(trace)].key
          /\ SameContext(trace, h, Len(trace))

\* The callbacks registered and not yet destroyed: those on the list of the
\* persistent context of a locator, and those on the list of a root context
\* made for a call in progress.
Queued ==
    UNION {{deferred[l][i] : i \in 1..Len(deferred[l])} : l \in Created}
        \cup UNION {{stack[d].list[i] : i \in 1..Len(stack[d].list)} : d \in 1..Len(stack)}

\* C27: no registered callback is called a second time, whatever calls were
\* made and however they ended.
C27_CallbackAtMostOnce ==
    \A c \in Queued : c.runs <= 1

\* C28: whatever a resolve or tryResolve is handed by a singleton binding -
\* issued through the locator of the binding or through a descendant, by the
\* client or by a construction function - is the instance the first get of
\* that binding returned.
C28_SingletonSameForAll ==
    \A i \in 1..Len(trace) :
        (/\ trace[i].e = "ret"
         /\ trace[i].op \in {"resolve", "tryResolve"}
         /\ trace[i].key # NoKey
         /\ bindings[trace[i].key].kind = "singleton")
            => trace[i].val = seen[trace[i].key].first

\* The binding invoked by the resolveAll or getContext frame at depth d is
\* under construction a second time further up the stack.
BegunAgain(d) ==
    \E j \in (d + 1)..Len(stack) : stack[j].key = stack[d].key /\ stack[j].ip > 0

\* Every binding resolveAll or the flush of getContext invoked was invoked on
\* a context that carries the name the binding is registered under.
InvokedUnderOwnName ==
    \A i \in 1..Len(trace) :
        (/\ trace[i].op \in {"resolveAll", "getContext"}
         /\ trace[i].e \in {"ctor", "get"})
            => trace[i].name = trace[i].key[3]

\* No binding resolveAll or the flush of getContext invoked is under
\* construction twice at the same time.
NotBegunAgain ==
    \A d \in 1..Len(stack) :
        (stack[d].op \in {"resolveAll", "getContext"} /\ stack[d].key # NoKey)
            => ~BegunAgain(d)

\* C29: resolveAll and the eager flush of getContext invoke a binding
\* registered under name N on a context named N, and no construction of a
\* binding they invoked is begun a second time while the first is running
\* (the nested request is refused with RecursiveResolve before that).
C29_InvokedUnderOwnName == InvokedUnderOwnName /\ NotBegunAgain

\* One locator, classes that use the deferred queue, singletons that may be
\* eager, and getContext.
NextEagerDeferred ==
    \/ Client({LocPool[1]},
              {"transient", "singleton", "eager"} \X {"Late", "Chained", "TestC"},
              {<<"ITest", "">>, <<"TestC", "">>}, MaxBind)
    \/ trace = <<>> /\ getContext(LocPool[1])
    \/ release
    \/ CtorCall
    \/ CtorDone
    \/ CallbackCall
    \/ CallbackDone

SpecEagerDeferred == Init /\ [][NextEagerDeferred]_vars

\* The number of callbacks registered during the call the trace shows.
RECURSIVE Defers(_)
Defers(n) ==
    IF n = 0 THEN 0 ELSE Defers(n - 1) + (IF trace[n].e = "defer" THEN 1 ELSE 0)

\* getContext has returned the context of the locator.
getContextReturned ==
    /\ stack = <<>>
    /\ trace # <<>>
    /\ trace[1].op = "getContext"
    /\ trace[Len(trace)].e = "ret"

\* C30: when getContext returns, every callback that a construction of its
\* eager flush registered has been called; none of them is still on the list
\* of the locator's root context without having been called.
C30_FlushDrainsDeferred ==
    getContextReturned =>
        LET list == deferred[trace[1].from]
        IN  \A n \in 1..Len(list) :
                n > Len(list) - Defers(Len(trace)) => list[n].runs > 0

\* The frame at depth d is a call of a function obtained from provider or
\* tryProvider that the constructor running in the frame below made for the
\* interface and name of the binding that constructor belongs to.
ProviderForOwnBinding(d) ==
    /\ stack[d].op \in {"provider", "tryProvider"}
    /\ stack[d - 1].key # NoKey
    /\ stack[d - 1].ip > 0
    /\ stack[d].ctx.root.cap = stack[d - 1].key[2]
    /\ stack[d].ctx.root.name = stack[d - 1].key[3]

\* C31: a provider or tryProvider call that a construction function makes
\* for its own interface and name never starts another construction of that
\* binding (it is refused with RecursiveResolve first).
C31_ProviderCycleRefused ==
    \A d \in 2..Len(stack) :
        ProviderForOwnBinding(d) => ~(stack[d].key = stack[d - 1].key /\ stack[d].ip > 0)

\* C32: a resolve or tryResolve the client issues through a locator that has
\* its own binding for the interface and name invokes the get of that binding
\* only: no get of a binding of an ancestor is invoked by the call itself,
\* whatever the get of the closest binding returned.
C32_ClosestGetOnly ==
    (/\ trace # <<>>
     /\ trace[1].e = "call"
     /\ trace[1].op \in {"resolve", "tryResolve"}
     /\ canResolve(trace[1].from, trace[1].cap, trace[1].name))
        => \A i \in 1..Len(trace) :
               (trace[i].depth = 1 /\ trace[i].e \in {"ctor", "get"})
                   => trace[i].key = <<trace[1].from, trace[1].cap, trace[1].name>>
====
